---- MODULE Spec2Model ----
(***************************************************************************)
(* Model of forklift.js: a daemon that watches a local directory and       *)
(* uploads each matching file to Manta, one at a time.                     *)
(*                                                                         *)
(* Every Node.js callback (timer, fs completion, stream event, Manta       *)
(* completion) is one atomic action: JavaScript runs a callback to         *)
(* completion before the next one starts.  Calls a callback makes          *)
(* synchronously (handle_files -> callback -> upload_one, upload_end) are  *)
(* part of the same action.                                                *)
(***************************************************************************)
EXTENDS Integers, Sequences, FiniteSets, Bags, TLC

(* ------------------------------ bounds -------------------------------- *)

\* number of matching file names that can exist in CONFIG.local_dir
NumPaths == 2
\* closures of upload_one that still have a callback outstanding
MaxLive == 2
\* outstanding setTimeout(upload_one, 1000) timers
MaxTimers == 1
\* distinct file contents (hence distinct MD5 digests)
NumContents == 2

Paths == 1..NumPaths
Contents == 1..NumContents
NoPath == 0
\* an I/O result that is an error instead of a content
Failed == 0

VARIABLES
    proc,        \* "locking" | "running" | "exited_nolock" | "exited_client"
    fs,          \* fs[p]: does the local file p exist
    FILEQ,       \* the round-robin queue (sequence of paths)
    UPLOADING,   \* the path being uploaded, or NoPath (null)
    scan,        \* the closure of the fs_dir_list call in progress
    attempts,    \* bag of upload_one closures with callbacks outstanding
    timers,      \* number of pending setTimeout(upload_one, 1000)
    outcome,     \* what the last upload_end logged (cleared by a dequeue)
    tries,       \* history: tries[p] is "never", "once" or "again" (SpecRR only)
    leftover     \* history: paths whose file outlived the unlinkSync of a
                 \* successful attempt (SpecLeftover only)

coreVars == <<proc, fs, FILEQ, UPLOADING, scan, attempts, timers, outcome>>
hist == <<tries, leftover>>
vars == <<proc, fs, FILEQ, UPLOADING, scan, attempts, timers, outcome, tries, leftover>>

(* --------------------------- pure helpers ----------------------------- *)

Range(s) == {s[i] : i \in 1..Len(s)}

\* Array.prototype.indexOf(x) === -1
NotIn(s, x) == \A i \in 1..Len(s) : s[i] # x

\* Array.prototype.splice(i, 1) with a 1-based index
Splice(s, i) == [j \in 1..(Len(s) - 1) |-> IF j < i THEN s[j] ELSE s[j + 1]]

\* The MD5 digest of a content, as raw bytes (three bytes stand for sixteen).
Md5Bytes(c) == <<c, (c * 37) % 256, 255 - c>>

\* hex rendering of bytes: two nibbles per byte (digest('hex'), toString('hex'))
HexEncode(bytes) ==
    [i \in 1..(2 * Len(bytes)) |->
        IF i % 2 = 1 THEN bytes[(i + 1) \div 2] \div 16
                     ELSE bytes[i \div 2] % 16]

\* base64 rendering of three bytes as four sextets (what Manta reports in info.md5)
Base64Encode(bytes) ==
    LET n == bytes[1] * 65536 + bytes[2] * 256 + bytes[3]
    IN  <<n \div 262144, (n \div 4096) % 64, (n \div 64) % 64, n % 64>>

\* new Buffer(b64, 'base64')
Base64Decode(b64) ==
    LET n == b64[1] * 262144 + b64[2] * 4096 + b64[3] * 64 + b64[4]
    IN  <<n \div 65536, (n \div 256) % 256, n % 256>>

b64_to_md5(b64) == HexEncode(Base64Decode(b64))

NoMd5 == <<>>

(* ----------------------- fs_dir_list.handle_files --------------------- *)

\* The pruning loop, lines 147-152: i advances after a splice as well.
RECURSIVE PruneLoop(_, _, _)
PruneLoop(q, file_list, i) ==
    IF i > Len(q) THEN q
    ELSE IF NotIn(file_list, q[i])
         THEN PruneLoop(Splice(q, i), file_list, i + 1)
         ELSE PruneLoop(q, file_list, i + 1)

\* AppendLoop without the FILEQ.indexOf test
RECURSIVE AppendLoopNoIndexOf(_, _, _, _)
AppendLoopNoIndexOf(q, file_list, uploading, i) ==
    IF i > Len(file_list) THEN q
    ELSE IF uploading # file_list[i]
         THEN AppendLoopNoIndexOf(Append(q, file_list[i]), file_list, uploading, i + 1)
         ELSE AppendLoopNoIndexOf(q, file_list, uploading, i + 1)

\* AppendLoop without the UPLOADING test
RECURSIVE AppendLoopNoUploading(_, _, _, _)
AppendLoopNoUploading(q, file_list, uploading, i) ==
    IF i > Len(file_list) THEN q
    ELSE IF NotIn(q, file_list[i])
         THEN AppendLoopNoUploading(Append(q, file_list[i]), file_list, uploading, i + 1)
         ELSE AppendLoopNoUploading(q, file_list, uploading, i + 1)

\* AppendLoop with FILEQ.unshift in place of FILEQ.push
RECURSIVE AppendLoopUnshift(_, _, _, _)
AppendLoopUnshift(q, file_list, uploading, i) ==
    IF i > Len(file_list) THEN q
    ELSE IF uploading # file_list[i] /\ NotIn(q, file_list[i])
         THEN AppendLoopUnshift(<<file_list[i]>> \o q, file_list, uploading, i + 1)
         ELSE AppendLoopUnshift(q, file_list, uploading, i + 1)

\* The append loop, lines 156-162.
RECURSIVE AppendLoop(_, _, _, _)
AppendLoop(q, file_list, uploading, i) ==
    IF i > Len(file_list) THEN q
    ELSE IF uploading # file_list[i] /\ NotIn(q, file_list[i])
         THEN AppendLoop(Append(q, file_list[i]), file_list, uploading, i + 1)
         ELSE AppendLoop(q, file_list, uploading, i + 1)

\* handle_files that rebuilds the queue from file_list
handle_files_rebuild(q, file_list, uploading) ==
    SelectSeq(file_list, LAMBDA p : p # uploading)

\* FILEQ after handle_files ran with this file_list
handle_files(q, file_list, uploading) ==
    AppendLoop(PruneLoop(q, file_list, 1), file_list, uploading, 1)

(* ------------------------------ state --------------------------------- *)

NoScan(phase) == [phase |-> phase, pending |-> {}, file_list |-> <<>>]

\* outcome.unlink: "none" (no unlinkSync), "ok", "failed" (it threw), or
\* "recreated" (it was "ok" and somebody created the file again since)
NoOutcome == [path |-> NoPath, kind |-> "none", unlink |-> "none"]

Exists(p) == p # NoPath /\ fs[p]

\* The closure created by one call of upload_one that got past its guard.
\*   path    the path it dequeued (manta_path is derived from it)
\*   ended   the closure's "ended" flag
\*   stream  fstream: "opening" | "open" | "closed" (errored, or read to
\*           its end: it emits nothing more that has a handler)
\*   phase   "none" (put not issued) | "put" | "info" | "md5" | "done"
\*   remote  remote_md5 of handle_conflict, sumpath the argument of md5sum
NewAttempt(p) ==
    [path |-> p, ended |-> FALSE, stream |-> "opening", phase |-> "none",
     remote |-> NoMd5, sumpath |-> NoPath]

\* An attempt is in progress from its dequeue until it calls upload_end:
\* until the stream error or the put completion sets "ended", and then on
\* through handle_conflict.
InProgress(a) == ~a.ended \/ a.phase \in {"info", "md5"}

\* A closure with no callback left to run is garbage.
Live(a) == ~(a.stream = "closed" /\ a.phase \in {"none", "done"})

\* A closure that has called upload_end only logs from then on: every
\* callback it still gets reads "ended" and stops.  Its manta_path and
\* remote_md5 are never read again except by log(), so they are dropped.
Spent(a) == [a EXCEPT !.path = NoPath, !.remote = NoMd5, !.sumpath = NoPath]

\* The bag of closures after closure a became b.
Replace(a, b) ==
    LET rest == attempts (-) SetToBag({a})
    IN  IF ~Live(b) THEN rest
        ELSE IF InProgress(b) THEN rest (+) SetToBag({b})
        ELSE rest (+) SetToBag({Spent(b)})

\* Init with dispatcher() called at load time, not from 'gotlock'
InitDispatching ==
    /\ proc = "locking"
    /\ fs \in [Paths -> BOOLEAN]
    /\ FILEQ = <<>>
    /\ UPLOADING = NoPath
    /\ scan = NoScan("readdir")
    /\ attempts = EmptyBag
    /\ timers = 0
    /\ outcome = NoOutcome
    /\ tries = [p \in Paths |-> "never"]
    /\ leftover = {}

Init ==
    /\ proc = "locking"
    /\ fs \in [Paths -> BOOLEAN]
    /\ FILEQ = <<>>
    /\ UPLOADING = NoPath
    /\ scan = NoScan("off")
    /\ attempts = EmptyBag
    /\ timers = 0
    /\ outcome = NoOutcome
    /\ tries = [p \in Paths |-> "never"]
    /\ leftover = {}

(* ----------------------- upload_one / upload_end ---------------------- *)

\* upload_one without the UPLOADING !== null test
upload_one_unguarded(q) ==
    IF Len(q) < 1
    THEN /\ FILEQ' = q
         /\ UNCHANGED <<UPLOADING, attempts, outcome>>
    ELSE /\ BagCardinality(attempts) < MaxLive
         /\ UPLOADING' = Head(q)
         /\ FILEQ' = Tail(q)
         /\ attempts' = attempts (+) SetToBag({NewAttempt(Head(q))})
         /\ outcome' = NoOutcome

\* upload_one with FILEQ.pop() in place of FILEQ.shift()
upload_one_pop(q) ==
    IF UPLOADING # NoPath \/ Len(q) < 1
    THEN /\ FILEQ' = q
         /\ UNCHANGED <<UPLOADING, attempts, outcome>>
    ELSE /\ BagCardinality(attempts) < MaxLive
         /\ UPLOADING' = q[Len(q)]
         /\ FILEQ' = SubSeq(q, 1, Len(q) - 1)
         /\ attempts' = attempts (+) SetToBag({NewAttempt(q[Len(q)])})
         /\ outcome' = NoOutcome

\* upload_one() called when the queue holds q; lines 183-190 and 205.
upload_one(q) ==
    IF UPLOADING # NoPath \/ Len(q) < 1
    THEN /\ FILEQ' = q
         /\ UNCHANGED <<UPLOADING, attempts, outcome>>
    ELSE /\ BagCardinality(attempts) < MaxLive
         /\ UPLOADING' = Head(q)
         /\ FILEQ' = Tail(q)
         /\ attempts' = attempts (+) SetToBag({NewAttempt(Head(q))})
         /\ outcome' = NoOutcome

\* upload_end that unlinks whatever remove_local_file says
upload_end_unlinks(remove_local_file, kind, unlinkOk) ==
    LET unlinked == Exists(UPLOADING) /\ unlinkOk
    IN  /\ timers < MaxTimers
        /\ fs' = IF unlinked THEN [fs EXCEPT ![UPLOADING] = FALSE] ELSE fs
        /\ outcome' = [path |-> UPLOADING, kind |-> kind,
                       unlink |-> IF unlinked THEN "ok" ELSE "failed"]
        /\ UPLOADING' = NoPath
        /\ timers' = timers + 1

\* upload_end without the try/catch: a throwing unlinkSync skips the rest
upload_end_throws(remove_local_file, kind, unlinkOk) ==
    LET unlinked == remove_local_file /\ Exists(UPLOADING) /\ unlinkOk
    IN  IF remove_local_file /\ ~unlinked
        THEN /\ outcome' = [path |-> UPLOADING, kind |-> kind, unlink |-> "failed"]
             /\ UNCHANGED <<fs, UPLOADING, timers>>
        ELSE /\ timers < MaxTimers
             /\ fs' = IF unlinked THEN [fs EXCEPT ![UPLOADING] = FALSE] ELSE fs
             /\ outcome' = [path |-> UPLOADING, kind |-> kind,
                            unlink |-> IF unlinked THEN "ok" ELSE "none"]
             /\ UPLOADING' = NoPath
             /\ timers' = timers + 1

\* upload_end without the setTimeout
upload_end_no_timer(remove_local_file, kind, unlinkOk) ==
    LET unlinked == remove_local_file /\ Exists(UPLOADING) /\ unlinkOk
    IN  /\ fs' = IF unlinked THEN [fs EXCEPT ![UPLOADING] = FALSE] ELSE fs
        /\ outcome' = [path |-> UPLOADING, kind |-> kind,
                       unlink |-> IF ~remove_local_file THEN "none"
                                  ELSE IF unlinked THEN "ok" ELSE "failed"]
        /\ UPLOADING' = NoPath
        /\ UNCHANGED timers

\* upload_end(remove_local_file); kind is the line it logged just before,
\* unlinkOk whether unlinkSync returns instead of throwing.
upload_end(remove_local_file, kind, unlinkOk) ==
    LET unlinked == remove_local_file /\ Exists(UPLOADING) /\ unlinkOk
    IN  /\ timers < MaxTimers
        /\ fs' = IF unlinked THEN [fs EXCEPT ![UPLOADING] = FALSE] ELSE fs
        /\ outcome' = [path |-> UPLOADING, kind |-> kind,
                       unlink |-> IF ~remove_local_file THEN "none"
                                  ELSE IF unlinked THEN "ok" ELSE "failed"]
        /\ UPLOADING' = NoPath
        /\ timers' = timers + 1

(* ------------------------------ main ---------------------------------- *)

\* MUTEX 'gotlock': create_manta_client, then dispatcher() issues readdir.
GotLock ==
    /\ proc = "locking"
    /\ proc' = "running"
    /\ scan' = NoScan("readdir")
    /\ UNCHANGED <<fs, FILEQ, UPLOADING, attempts, timers, outcome>>

\* process.exit(1) after logging why: everything the process held in
\* memory is gone.
Exit(why) ==
    /\ proc' = why
    /\ FILEQ' = <<>>
    /\ UPLOADING' = NoPath
    /\ scan' = NoScan("off")
    /\ attempts' = EmptyBag
    /\ timers' = 0
    /\ outcome' = NoOutcome
    /\ UNCHANGED fs

\* MUTEX 'retrying'
Retrying ==
    /\ proc = "locking"
    /\ Exit("exited_nolock")

\* client 'error'
ClientError ==
    /\ proc = "running"
    /\ Exit("exited_client")

(* --------------------- dispatcher / fs_dir_list ----------------------- *)

\* The callback dispatcher passes to fs_dir_list, called when the queue
\* holds q: re-arm the scan timer, then upload_one().
dispatcher_cb(q) ==
    /\ scan' = NoScan("timer")
    /\ upload_one(q)
    /\ UNCHANGED <<proc, fs, timers>>

\* DispatcherTimer that puts the scan off while an upload is in flight
DispatcherTimerWaits ==
    /\ proc = "running"
    /\ scan.phase = "timer"
    /\ UPLOADING = NoPath
    /\ scan' = NoScan("readdir")
    /\ UNCHANGED <<proc, fs, FILEQ, UPLOADING, attempts, timers, outcome>>

\* setTimeout(dispatcher, 10000) fires: fs_dir_list issues readdir.
DispatcherTimer ==
    /\ proc = "running"
    /\ scan.phase = "timer"
    /\ scan' = NoScan("readdir")
    /\ UNCHANGED <<proc, fs, FILEQ, UPLOADING, attempts, timers, outcome>>

\* ReaddirError that lets the error escape instead of passing it on
ReaddirErrorThrows ==
    /\ proc = "running"
    /\ scan.phase = "readdir"
    /\ Exit("exited_scan")

\* readdir fails: callback(err).
ReaddirError ==
    /\ proc = "running"
    /\ scan.phase = "readdir"
    /\ dispatcher_cb(FILEQ)

\* readdir returns the matching names present now.  With none, handle_files
\* runs at once; otherwise one lstat per name is issued.
ReaddirDone ==
    /\ proc = "running"
    /\ scan.phase = "readdir"
    /\ LET files == {p \in Paths : fs[p]}
       IN  IF files = {}
           THEN dispatcher_cb(handle_files(FILEQ, <<>>, UPLOADING))
           ELSE /\ scan' = [phase |-> "lstat", pending |-> files, file_list |-> <<>>]
                /\ UNCHANGED <<proc, fs, FILEQ, UPLOADING, attempts, timers, outcome>>

\* An lstat completes: push the path if it is a regular file, b.done().
LstatDone(p, isFile) ==
    /\ proc = "running"
    /\ scan.phase = "lstat"
    /\ p \in scan.pending
    /\ fs[p]
    /\ scan' = [scan EXCEPT !.pending = @ \ {p},
                            !.file_list = IF isFile THEN Append(@, p) ELSE @]
    /\ UNCHANGED <<proc, fs, FILEQ, UPLOADING, attempts, timers, outcome>>

\* LstatError that goes on to handle_files with what was collected so far
LstatErrorReconciles(p) ==
    /\ proc = "running"
    /\ scan.phase = "lstat"
    /\ p \in scan.pending
    /\ dispatcher_cb(handle_files(FILEQ, scan.file_list, UPLOADING))

\* An lstat fails (always so when the file is gone): callback(_err).  Its
\* b.done() never happens, so the barrier of this scan never drains and
\* the rest of its closure cannot touch FILEQ any more.
LstatError(p) ==
    /\ proc = "running"
    /\ scan.phase = "lstat"
    /\ p \in scan.pending
    /\ dispatcher_cb(FILEQ)

\* The barrier drains: handle_files, callback(null).
Drain ==
    /\ proc = "running"
    /\ scan.phase = "lstat"
    /\ scan.pending = {}
    /\ dispatcher_cb(handle_files(FILEQ, scan.file_list, UPLOADING))

\* setTimeout(upload_one, 1000) fires.
UploadOneTimer ==
    /\ proc = "running"
    /\ timers > 0
    /\ timers' = timers - 1
    /\ upload_one(FILEQ)
    /\ UNCHANGED <<proc, fs, scan>>

(* --------------------- callbacks of an upload attempt ----------------- *)

\* StreamError without the "ended" test
StreamErrorUnguarded(a) ==
    /\ proc = "running"
    /\ BagIn(a, attempts)
    /\ a.stream \in {"opening", "open"}
    /\ attempts' = Replace(a, [a EXCEPT !.stream = "closed", !.ended = TRUE,
                                        !.phase = IF @ = "put" THEN @ ELSE "done"])
    /\ upload_end(FALSE, "read_err", FALSE)
    /\ UNCHANGED <<proc, FILEQ, scan>>

\* fstream 'error', lines 207-213.  It can come before 'open' (the file
\* cannot be opened) or later (a read fails) and closes the stream.
StreamError(a) ==
    /\ proc = "running"
    /\ BagIn(a, attempts)
    /\ a.stream \in {"opening", "open"}
    /\ attempts' = Replace(a, [a EXCEPT !.stream = "closed", !.ended = TRUE])
    /\ IF ~a.ended
       THEN upload_end(FALSE, "read_err", FALSE)
       ELSE UNCHANGED <<fs, UPLOADING, timers, outcome>>
    /\ UNCHANGED <<proc, FILEQ, scan>>

\* fstream 'open', lines 214-215: CLIENT.put is issued.
StreamOpen(a) ==
    /\ proc = "running"
    /\ BagIn(a, attempts)
    /\ a.stream = "opening"
    /\ fs[a.path]
    /\ attempts' = Replace(a, [a EXCEPT !.stream = "open", !.phase = "put"])
    /\ UNCHANGED <<proc, fs, FILEQ, UPLOADING, scan, timers, outcome>>

\* The callback of CLIENT.put, lines 215-230; res is "ok", "precond"
\* (PreconditionFailedError) or "err".  It sets "ended".  late says
\* whether the stream is still open, and so may emit 'error' later, or has
\* been read to its end.
PutDoneLate(a, res, unlinkOk, late) ==
    /\ proc = "running"
    /\ BagIn(a, attempts)
    /\ a.phase = "put"
    /\ LET wasended == a.ended
           b == [a EXCEPT !.ended = TRUE,
                          !.stream = IF late THEN @ ELSE "closed"]
       IN  CASE res = "precond" ->
                  /\ attempts' = Replace(a, [b EXCEPT !.phase =
                                     IF ~wasended THEN "info" ELSE "done"])
                  /\ UNCHANGED <<fs, UPLOADING, timers, outcome>>
             [] res = "err" ->
                  /\ attempts' = Replace(a, [b EXCEPT !.phase = "done"])
                  /\ IF ~wasended
                     THEN upload_end(FALSE, "put_err", unlinkOk)
                     ELSE UNCHANGED <<fs, UPLOADING, timers, outcome>>
             [] res = "ok" ->
                  /\ attempts' = Replace(a, [b EXCEPT !.phase = "done"])
                  /\ IF ~wasended
                     THEN upload_end(TRUE, "put_ok", unlinkOk)
                     ELSE UNCHANGED <<fs, UPLOADING, timers, outcome>>
    /\ UNCHANGED <<proc, FILEQ, scan>>

\* The callback of CLIENT.put when the put has consumed the stream to its
\* end.  (An 'error' of the stream after the put only logs, as "ended" is
\* set: SpecStream follows such streams, the other specifications do not.)
PutDone(a, res, unlinkOk) == PutDoneLate(a, res, unlinkOk, FALSE)

\* The callback of CLIENT.info, lines 258-267; res is Failed or the content
\* of the remote object, whose MD5 Manta reports in base64.
InfoDone(a, res) ==
    /\ proc = "running"
    /\ BagIn(a, attempts)
    /\ a.phase = "info"
    /\ IF res = Failed
       THEN /\ attempts' = Replace(a, [a EXCEPT !.phase = "done"])
            /\ upload_end(FALSE, "info_err", FALSE)
       ELSE /\ attempts' = Replace(a, [a EXCEPT
                               !.phase = "md5",
                               !.remote = b64_to_md5(Base64Encode(Md5Bytes(res))),
                               !.sumpath = UPLOADING])
            /\ UNCHANGED <<fs, UPLOADING, timers, outcome>>
    /\ UNCHANGED <<proc, FILEQ, scan>>

\* Md5Done that ends a checksum match with upload_end(false)
Md5DoneKeepsMatch(a, res, unlinkOk) ==
    /\ proc = "running"
    /\ BagIn(a, attempts)
    /\ a.phase = "md5"
    /\ res # Failed => Exists(a.sumpath)
    /\ attempts' = Replace(a, [a EXCEPT !.phase = "done"])
    /\ IF res = Failed
       THEN upload_end(FALSE, "md5_err", unlinkOk)
       ELSE IF HexEncode(Md5Bytes(res)) # a.remote
            THEN upload_end(FALSE, "mismatch", unlinkOk)
            ELSE upload_end(FALSE, "match", unlinkOk)
    /\ UNCHANGED <<proc, FILEQ, scan>>

\* The callback of md5sum, lines 267-283; res is Failed or the content read
\* from the local file, whose MD5 is rendered in hex.
Md5Done(a, res, unlinkOk) ==
    /\ proc = "running"
    /\ BagIn(a, attempts)
    /\ a.phase = "md5"
    /\ res # Failed => Exists(a.sumpath)
    /\ attempts' = Replace(a, [a EXCEPT !.phase = "done"])
    /\ IF res = Failed
       THEN upload_end(FALSE, "md5_err", unlinkOk)
       ELSE IF HexEncode(Md5Bytes(res)) # a.remote
            THEN upload_end(FALSE, "mismatch", unlinkOk)
            ELSE upload_end(TRUE, "match", unlinkOk)
    /\ UNCHANGED <<proc, FILEQ, scan>>

(* ---------------------------- environment ----------------------------- *)

\* Somebody else creates a matching file in the watch directory.
EnvCreate(p) ==
    /\ proc = "running"
    /\ ~fs[p]
    /\ fs' = [fs EXCEPT ![p] = TRUE]
    /\ outcome' = IF outcome.path = p /\ outcome.unlink = "ok"
                  THEN [outcome EXCEPT !.unlink = "recreated"]
                  ELSE outcome
    /\ UNCHANGED <<proc, FILEQ, UPLOADING, scan, attempts, timers>>

\* Somebody else removes a file from the watch directory.
EnvRemove(p) ==
    /\ proc = "running"
    /\ fs[p]
    /\ fs' = [fs EXCEPT ![p] = FALSE]
    /\ UNCHANGED <<proc, FILEQ, UPLOADING, scan, attempts, timers, outcome>>

(* --------------------------- specification ---------------------------- *)

PutResults == {"ok", "precond", "err"}
InfoResults == {Failed} \cup Contents
Md5Results == {Failed} \cup Contents

LockStep == (GotLock \/ Retrying) /\ UNCHANGED hist
ExitStep == ClientError /\ UNCHANGED hist
ScanTimerStep == DispatcherTimer /\ UNCHANGED hist
ReaddirStep == (ReaddirDone \/ ReaddirError) /\ UNCHANGED hist
LstatStep == (\E p \in Paths : LstatError(p) \/ \E f \in BOOLEAN : LstatDone(p, f))
             /\ UNCHANGED hist
DrainStep == Drain /\ UNCHANGED hist
UploadTimerStep == UploadOneTimer /\ UNCHANGED hist
StreamStep == (\E a \in BagToSet(attempts) :
                   StreamError(a) \/ StreamOpen(a))
              /\ UNCHANGED hist
PutStep == (\E a \in BagToSet(attempts), res \in PutResults, ok \in BOOLEAN :
                PutDone(a, res, ok))
           /\ UNCHANGED hist
ConflictStep == (\E a \in BagToSet(attempts) :
                    \/ \E res \in InfoResults : InfoDone(a, res)
                    \/ \E res \in Md5Results, ok \in BOOLEAN : Md5Done(a, res, ok))
                /\ UNCHANGED hist
EnvStep == (\E p \in Paths : EnvCreate(p) \/ EnvRemove(p)) /\ UNCHANGED hist

Next ==
    \/ LockStep
    \/ ExitStep
    \/ ScanTimerStep
    \/ ReaddirStep
    \/ LstatStep
    \/ DrainStep
    \/ UploadTimerStep
    \/ StreamStep
    \/ PutStep
    \/ ConflictStep
    \/ EnvStep

Spec == Init /\ [][Next]_vars

TypeOK ==
    /\ proc \in {"locking", "running", "exited_nolock", "exited_client"}
    /\ fs \in [Paths -> BOOLEAN]
    /\ UPLOADING \in Paths \cup {NoPath}
    /\ Range(FILEQ) \subseteq Paths
    /\ tries \in [Paths -> {"never", "once", "again"}]
    /\ timers \in 0..MaxTimers
    /\ BagCardinality(attempts) <= MaxLive
    /\ leftover \subseteq Paths

(* ------------- the same program beside a quiet directory -------------- *)
(* SpecRR: every file is there when the process starts, nobody else        *)
(* creates or removes files, and every entry is a regular file.  tries     *)
(* counts the dequeues of each path.                                       *)

InitRR ==
    /\ proc = "locking"
    /\ fs = [p \in Paths |-> TRUE]
    /\ FILEQ = <<>>
    /\ UPLOADING = NoPath
    /\ scan = NoScan("off")
    /\ attempts = EmptyBag
    /\ timers = 0
    /\ outcome = NoOutcome
    /\ tries = [p \in Paths |-> "never"]
    /\ leftover = {}

\* a dequeue in this step is one more try of the dequeued path
Track ==
    /\ tries' = IF UPLOADING = NoPath /\ UPLOADING' # NoPath
                THEN [tries EXCEPT ![UPLOADING'] = IF @ = "never" THEN "once" ELSE "again"]
                ELSE tries
    /\ UNCHANGED leftover

LockStepRR == (GotLock \/ Retrying) /\ Track
ExitStepRR == ClientError /\ Track
ScanTimerStepRR == DispatcherTimer /\ Track
ReaddirStepRR == (ReaddirDone \/ ReaddirError) /\ Track
LstatStepRR == (\E p \in Paths : LstatError(p) \/ LstatDone(p, TRUE)) /\ Track
DrainStepRR == Drain /\ Track
UploadTimerStepRR == UploadOneTimer /\ Track
StreamStepRR == (\E a \in BagToSet(attempts) :
                     StreamError(a) \/ StreamOpen(a))
                /\ Track
PutStepRR == (\E a \in BagToSet(attempts), res \in PutResults, ok \in BOOLEAN :
                  PutDone(a, res, ok))
             /\ Track
ConflictStepRR == (\E a \in BagToSet(attempts) :
                      \/ \E res \in InfoResults : InfoDone(a, res)
                      \/ \E res \in Md5Results, ok \in BOOLEAN : Md5Done(a, res, ok))
                  /\ Track

NextRR ==
    \/ LockStepRR
    \/ ExitStepRR
    \/ ScanTimerStepRR
    \/ ReaddirStepRR
    \/ LstatStepRR
    \/ DrainStepRR
    \/ UploadTimerStepRR
    \/ StreamStepRR
    \/ PutStepRR
    \/ ConflictStepRR

SpecRR == InitRR /\ [][NextRR]_vars

(* ------------------ handle_files as a function of its inputs ----------- *)
(* SpecReconcile: the queue, the in-flight path and the scan result are    *)
(* drawn from all values they can have, and handle_files is applied to     *)
(* them, once and then once more.                                          *)

NoDup(s) == \A i, j \in 1..Len(s) : i # j => s[i] # s[j]

PathSeqs == {s \in UNION {[1..k -> Paths] : k \in 0..NumPaths} : NoDup(s)}

InitReconcile ==
    /\ proc = "running"
    /\ FILEQ \in PathSeqs
    /\ UPLOADING \in (Paths \cup {NoPath}) \ Range(FILEQ)
    /\ \E S \in PathSeqs :
         scan = [phase |-> "lstat", pending |-> {}, file_list |-> S]
    \* files come and go between an lstat and the drain of the barrier
    /\ fs \in [Paths -> BOOLEAN]
    /\ attempts = IF UPLOADING = NoPath THEN EmptyBag
                  ELSE SetToBag({NewAttempt(UPLOADING)})
    /\ timers = 0
    /\ outcome = NoOutcome
    /\ tries = [p \in Paths |-> "never"]
    /\ leftover = {}

\* handle_files up to, not including, its callback(null)
Reconcile ==
    /\ scan.phase = "lstat"
    /\ FILEQ' = handle_files(FILEQ, scan.file_list, UPLOADING)
    /\ scan' = [scan EXCEPT !.phase = "handled"]
    /\ UNCHANGED <<proc, fs, UPLOADING, attempts, timers, outcome, tries, leftover>>

\* handle_files once more with the same file_list
ReconcileAgain ==
    /\ scan.phase = "handled"
    /\ FILEQ' = handle_files(FILEQ, scan.file_list, UPLOADING)
    /\ scan' = [scan EXCEPT !.phase = "handled twice"]
    /\ UNCHANGED <<proc, fs, UPLOADING, attempts, timers, outcome, tries, leftover>>

NextReconcile ==
    \/ Reconcile
    \/ ReconcileAgain

SpecReconcile == InitReconcile /\ [][NextReconcile]_vars

\* the lstat callbacks where every entry is a regular file
LstatStepQuiet == (\E p \in Paths : LstatError(p) \/ LstatDone(p, TRUE))
                  /\ UNCHANGED hist

(* ---------------- streams that outlive their put ---------------------- *)
(* SpecStream: the quiet directory again, where the stream of an attempt   *)
(* may still be open when the put completes and emit 'error' afterwards.   *)

PutLateStep == (\E a \in BagToSet(attempts), res \in PutResults,
                   ok \in BOOLEAN, late \in BOOLEAN :
                    PutDoneLate(a, res, ok, late))
               /\ UNCHANGED hist

NextStream ==
    \/ LockStep
    \/ ExitStep
    \/ ScanTimerStep
    \/ ReaddirStep
    \/ LstatStepQuiet
    \/ DrainStep
    \/ UploadTimerStep
    \/ StreamStep
    \/ PutLateStep
    \/ ConflictStep

SpecStream == InitRR /\ [][NextStream]_vars

(* ---------------- files that outlive their unlinkSync ----------------- *)
(* SpecLeftover: the quiet directory again; leftover collects the paths    *)
(* whose attempt ended in success or a checksum match while unlinkSync     *)
(* threw and the file stayed.                                              *)

TrackLeftover ==
    /\ leftover' = leftover \cup
                     (IF /\ outcome'.kind \in {"put_ok", "match"}
                         /\ outcome'.unlink = "failed"
                         /\ Exists(outcome'.path)
                      THEN {outcome'.path} ELSE {})
    /\ UNCHANGED tries

PutStepLeftover == (\E a \in BagToSet(attempts), res \in PutResults, ok \in BOOLEAN :
                        PutDone(a, res, ok))
                   /\ TrackLeftover
ConflictStepLeftover == (\E a \in BagToSet(attempts) :
                            \/ \E res \in InfoResults : InfoDone(a, res)
                            \/ \E res \in Md5Results, ok \in BOOLEAN : Md5Done(a, res, ok))
                        /\ TrackLeftover

NextLeftover ==
    \/ LockStep
    \/ ExitStep
    \/ ScanTimerStep
    \/ ReaddirStep
    \/ LstatStepQuiet
    \/ DrainStep
    \/ UploadTimerStep
    \/ StreamStep
    \/ PutStepLeftover
    \/ ConflictStepLeftover

SpecLeftover == InitRR /\ [][NextLeftover]_vars

(* ------------------------------ fairness ------------------------------ *)
(* Node.js fires every timer that is armed and the operating system        *)
(* completes every readdir and lstat; a put, info or checksum may hang.    *)

\* a step of the scan lane; scan.phase lets at most one of the four be
\* enabled at a time, so fairness to their disjunction is fairness to each
ScanLaneStep == ScanTimerStep \/ ReaddirStep \/ LstatStep \/ DrainStep

ScanFairness == WF_vars(ScanLaneStep)

SpecScanFair == Spec /\ ScanFairness

\* a step of the upload lane: the upload_one timer or a callback of a
\* closure of upload_one
UploadLaneStep == UploadTimerStep \/ StreamStep \/ PutStep \/ ConflictStep

\* ... and, where the I/O operations of the uploads complete as well: the
\* upload lane does not stop while one of its callbacks is due (which is
\* less than asking every single callback to arrive).
UploadFairness == WF_vars(UploadLaneStep)

SpecFair == Spec /\ ScanFairness /\ UploadFairness

ScanLaneStepRR == ScanTimerStepRR \/ ReaddirStepRR \/ LstatStepRR \/ DrainStepRR

UploadLaneStepRR == UploadTimerStepRR \/ StreamStepRR \/ PutStepRR \/ ConflictStepRR

SpecRRFair == SpecRR /\ WF_vars(ScanLaneStepRR) /\ WF_vars(UploadLaneStepRR)

(* ------------------------------ claims -------------------------------- *)

FailKinds == {"read_err", "put_err", "info_err", "md5_err", "mismatch"}

\* this step is the upload_end of the attempt for p
Ends(p) == p # NoPath /\ UPLOADING = p /\ UPLOADING' = NoPath /\ proc' = "running"

\* this step is the callback dispatcher gave to fs_dir_list
ScanEnds == scan.phase \in {"readdir", "lstat"} /\ scan'.phase = "timer"

\* this step is md5sum returning, for attempt a, the checksum info returned
MatchStep(a) ==
    /\ a.phase = "md5"
    /\ \E c \in Contents :
         /\ HexEncode(Md5Bytes(c)) = a.remote
         /\ \E ok \in BOOLEAN : Md5Done(a, c, ok)

\* C1: at most one upload attempt is in progress in every reachable state:
\* the closures between their dequeue and their upload_end number at most
\* one, that one is the attempt for UPLOADING, and UPLOADING is null
\* exactly when there is none.
Exclusivity ==
    LET inProgress == {a \in BagToSet(attempts) : InProgress(a)}
    IN  /\ Cardinality(inProgress) <= 1
        /\ \A a \in inProgress : CopiesIn(a, attempts) = 1 /\ a.path = UPLOADING
        /\ (UPLOADING = NoPath) <=> (inProgress = {})

\* an upload is in progress, another file waits, a scan is under way and an
\* earlier attempt's closure still has a callback to come
ExclusivityWitness ==
    /\ UPLOADING # NoPath
    /\ FILEQ # <<>>
    /\ scan.phase = "lstat"
    /\ \E a \in BagToSet(attempts) : ~InProgress(a)

\* C2: a step removes a local file only if somebody else removed it, or it
\* is the put of that file's attempt returning success, or it is the
\* md5sum of that file's attempt returning the checksum that info returned;
\* and an upload_end after a read error, another put error, an info error,
\* a checksum error or a mismatch leaves every local file in place.
NeverDeleteOnUncertainty ==
    [][\A p \in Paths :
         /\ (fs[p] /\ ~fs'[p]) =>
              \/ EnvRemove(p)
              \/ \E a \in BagToSet(attempts) :
                   /\ a.path = p
                   /\ UPLOADING = p
                   /\ \/ \E ok \in BOOLEAN : PutDone(a, "ok", ok)
                      \/ MatchStep(a)
         /\ (Ends(p) /\ outcome'.kind \in FailKinds) => fs' = fs
      ]_vars

\* an attempt ended in a checksum mismatch and its file is still there
NeverDeleteWitness ==
    /\ outcome.kind = "mismatch"
    /\ fs[outcome.path]
    /\ UPLOADING = NoPath

\* C3 (as claimed): the upload_end of a failed attempt for p leaves p as
\* the last entry of the queue.
RequeueAtTailOnFailure ==
    [][\A p \in Paths :
         (Ends(p) /\ outcome'.kind \in FailKinds) =>
             (FILEQ' # <<>> /\ FILEQ'[Len(FILEQ')] = p)
      ]_vars

\* C4 (as claimed): when the put was rejected with PreconditionFailed and
\* the checksums agree, the local file is gone, the dispatcher is idle and
\* the path is not in the queue.
ConflictMatchDeletes ==
    [][\A a \in BagToSet(attempts) :
         MatchStep(a) =>
             /\ ~fs'[UPLOADING]
             /\ UPLOADING' = NoPath
             /\ FILEQ' = FILEQ /\ NotIn(FILEQ', UPLOADING)
      ]_vars

\* C4 (amended): when the put was rejected with PreconditionFailed and the
\* checksums agree, unlinkSync is called on the local file, which is gone
\* unless unlinkSync threw; the dispatcher is idle, the next upload_one is
\* scheduled and the path is not in the queue.
ConflictMatchIsSuccess ==
    [][\A a \in BagToSet(attempts) :
         MatchStep(a) =>
             /\ outcome'.kind = "match" /\ outcome'.path = UPLOADING
             /\ outcome'.unlink \in {"ok", "failed"}
             /\ outcome'.unlink = "ok" => ~fs'[UPLOADING]
             /\ UPLOADING' = NoPath
             /\ timers' = timers + 1
             /\ FILEQ' = FILEQ /\ NotIn(FILEQ', UPLOADING)
      ]_vars

\* a checksum match has ended an attempt: file deleted, idle, not queued
ConflictMatchWitness ==
    /\ outcome.kind = "match"
    /\ outcome.unlink = "ok"
    /\ ~fs[outcome.path]
    /\ UPLOADING = NoPath
    /\ NotIn(FILEQ, outcome.path)

\* C5 (as claimed): once an attempt ended in success or a checksum match
\* and its file was deleted and not created again, no step puts the path
\* into the queue or makes it the in-flight path.
PermanentDiscard ==
    [][(outcome.kind \in {"put_ok", "match"} /\ outcome.unlink = "ok") =>
          (NotIn(FILEQ', outcome.path) /\ UPLOADING' # outcome.path)
      ]_vars

\* C6 (as claimed): after handle_files no path is left in the queue that
\* is absent from file_list.
ReconcileRemovalComplete ==
    scan.phase = "handled" => Range(FILEQ) \subseteq Range(scan.file_list)

\* C7 (as claimed): handle_files applied a second time with the same
\* file_list leaves the queue as the first application left it.
ReconcileIdempotent ==
    [][(scan.phase = "handled" /\ scan'.phase = "handled twice") => FILEQ' = FILEQ]_vars

\* C8: each path occurs at most once in FILEQ in every reachable state.
QueueUniqueness == NoDup(FILEQ)

\* a scan is about to reconcile a file_list that names a queued path and
\* the in-flight path again
QueueUniquenessWitness ==
    /\ scan.phase = "lstat" /\ scan.pending = {}
    /\ FILEQ # <<>> /\ ~NotIn(scan.file_list, FILEQ[1])
    /\ UPLOADING # NoPath /\ ~NotIn(scan.file_list, UPLOADING)

\* C9: the in-flight path is never in the queue, and the completion of a
\* scan while a path is in flight, whether file_list names it or not,
\* leaves UPLOADING and the attempt's closure as they are and the path out
\* of the queue.
InFlightExemption ==
    /\ [](UPLOADING # NoPath => NotIn(FILEQ, UPLOADING))
    /\ [][(ScanEnds /\ UPLOADING # NoPath) =>
            /\ UPLOADING' = UPLOADING
            /\ attempts' = attempts
            /\ NotIn(FILEQ', UPLOADING)
         ]_vars

\* a scan is about to reconcile a file_list that lacks the in-flight path,
\* whose file has gone, while another path is queued
InFlightExemptionWitness ==
    /\ scan.phase = "lstat" /\ scan.pending = {}
    /\ UPLOADING # NoPath /\ ~fs[UPLOADING]
    /\ NotIn(scan.file_list, UPLOADING)
    /\ FILEQ # <<>>

\* C10: beside a quiet directory no path is dequeued a second time before
\* every other path has been dequeued once.
RoundRobinFairness ==
    \A p \in Paths : tries[p] = "again" => \A q \in Paths : tries[q] # "never"

\* the first file failed, every other file had one attempt and succeeded,
\* and the second attempt of the first file is running
RoundRobinWitness ==
    \E p \in Paths :
        /\ UPLOADING = p /\ tries[p] = "again" /\ fs[p]
        /\ \A q \in Paths \ {p} : tries[q] = "once" /\ ~fs[q]

\* this step is a scan cycle failing: readdir or one of its lstats
ScanError == ReaddirError \/ \E p \in Paths : LstatError(p)

PerFileError ==
    \/ ScanError
    \/ \E a \in BagToSet(attempts) :
         \/ StreamError(a)
         \/ \E res \in {"err", "precond"}, ok \in BOOLEAN : PutDone(a, res, ok)
         \/ InfoDone(a, Failed)
         \/ \E ok \in BOOLEAN : Md5Done(a, Failed, ok)
         \/ \E res \in Md5Results : Md5Done(a, res, FALSE)
         \/ PutDone(a, "ok", FALSE)

UnlinkFails(a) ==
    /\ a.path = UPLOADING
    /\ \/ ~a.ended /\ PutDone(a, "ok", FALSE)
       \/ /\ a.phase = "md5"
          /\ \E c \in Contents :
               HexEncode(Md5Bytes(c)) = a.remote /\ Md5Done(a, c, FALSE)

\* C13: when an attempt ends in success or a checksum match and
\* unlinkSync throws, the file stays, the dispatcher becomes idle and the
\* next upload_one is scheduled; a scan that finds the leftover file queues
\* it (or it is dequeued at once) like any other; and when the put of its
\* later attempt is rejected with PreconditionFailed and the checksums
\* agree, the attempt ends in unlinkSync again, which removes the file
\* unless it throws again.
DeletionFailureDoesNotBlock ==
    /\ [][\A a \in BagToSet(attempts) :
            (Exists(UPLOADING) /\ outcome'.unlink = "failed" /\ UnlinkFails(a)) =>
                /\ fs' = fs
                /\ UPLOADING' = NoPath
                /\ timers' = timers + 1
                /\ proc' = "running"
                /\ FILEQ' = FILEQ
         ]_vars
    /\ [][\A p \in leftover :
            (ScanEnds /\ ~NotIn(scan.file_list, p) /\ scan.pending = {}) =>
                (~NotIn(FILEQ', p) \/ UPLOADING' = p)
         ]_vars
    /\ [][\A a \in BagToSet(attempts) :
            (UPLOADING \in leftover /\ MatchStep(a)) =>
                /\ outcome'.kind = "match" /\ outcome'.path = UPLOADING
                /\ outcome'.unlink \in {"ok", "failed"}
                /\ outcome'.unlink = "ok" => ~fs'[UPLOADING]
                /\ UPLOADING' = NoPath
                /\ timers' = timers + 1
         ]_vars

\* a file that outlived the unlinkSync of a successful attempt has been
\* attempted again, found equal to the remote object and removed
DeletionFailureWitness ==
    /\ outcome.path \in leftover
    /\ outcome.kind = "match"
    /\ outcome.unlink = "ok"
    /\ ~fs[outcome.path]
    /\ UPLOADING = NoPath

\* nothing of the dispatcher has started
NotStarted ==
    /\ scan.phase = "off"
    /\ FILEQ = <<>>
    /\ UPLOADING = NoPath
    /\ attempts = EmptyBag
    /\ timers = 0
    /\ outcome = NoOutcome

\* C14: while the process waits for the lock, and after 'retrying'
\* terminated it, no scan, dequeue, attempt or timer has started; the
\* process leaves the waiting state only by 'gotlock' or 'retrying';
\* 'retrying' terminates only a process that was still waiting; and
\* before 'gotlock' the process changes no file.
LockGating ==
    /\ [](proc \in {"locking", "exited_nolock"} => NotStarted)
    /\ [][proc = "locking" =>
            /\ fs' = fs
            /\ proc' = "running" => GotLock
            /\ proc' \in {"locking", "running", "exited_nolock"}
         ]_vars
    /\ [][proc' = "exited_nolock" => proc \in {"locking", "exited_nolock"}]_vars
    /\ [][proc = "exited_nolock" => UNCHANGED vars]_vars

\* 'retrying' terminated the process while files were waiting
LockGatingWitness ==
    /\ proc = "exited_nolock"
    /\ \E p \in Paths : fs[p]

\* path p waits: it is in the queue of a running process and its file exists
Waits(p) == proc = "running" /\ ~NotIn(FILEQ, p) /\ fs[p]

\* C15: beside a quiet directory, with every timer firing and every I/O
\* operation completing, a path that is in the queue and whose file exists
\* is eventually dequeued (unless the client's 'error' terminates the
\* process first), whatever the results of the attempts of the other
\* paths: a path stops waiting only by being dequeued or by the process
\* terminating, and no path waits for ever.
NoBlockingByFailingFile ==
    /\ [][\A p \in Paths :
            (Waits(p) /\ ~Waits(p)') => (UPLOADING' = p \/ proc' # "running")
         ]_vars
    /\ \A p \in Paths : []<>(~Waits(p))

\* two paths have each failed an attempt and the second attempt of one of
\* them is running while the other, failed twice, is still there
NoBlockingWitness ==
    \E p, q \in Paths :
        /\ p # q
        /\ UPLOADING = p /\ tries[p] = "again" /\ fs[p]
        /\ tries[q] = "again" /\ fs[q]

\* the place of x in s
Pos(s, x) == CHOOSE i \in 1..Len(s) : s[i] = x

\* C16: after handle_files ran with file_list S, every path of S that was
\* neither queued nor in flight is queued; the entries that were queued
\* before and still are keep their relative order; and every entry that
\* was queued before precedes every entry that was not.
ReconcileAppendOrder ==
    [][(scan.phase = "lstat" /\ scan'.phase = "handled") =>
          /\ \A p \in Range(scan.file_list) :
                (NotIn(FILEQ, p) /\ p # UPLOADING) => ~NotIn(FILEQ', p)
          /\ \A i, j \in 1..Len(FILEQ') :
                /\ (i < j /\ ~NotIn(FILEQ, FILEQ'[i]) /\ ~NotIn(FILEQ, FILEQ'[j]))
                      => Pos(FILEQ, FILEQ'[i]) < Pos(FILEQ, FILEQ'[j])
                /\ (~NotIn(FILEQ, FILEQ'[i]) /\ NotIn(FILEQ, FILEQ'[j])) => i < j
          /\ \A i \in 1..Len(FILEQ') :
                NotIn(FILEQ, FILEQ'[i]) =>
                    (~NotIn(scan.file_list, FILEQ'[i]) /\ FILEQ'[i] # UPLOADING)
      ]_vars

\* handle_files has left a queue of two in the opposite order of file_list
ReconcileAppendOrderWitness ==
    /\ scan.phase = "handled"
    /\ Len(FILEQ) = 2
    /\ scan.file_list = <<FILEQ[2], FILEQ[1]>>

\* this step moves the head of the queue to UPLOADING
Dequeue == UPLOADING = NoPath /\ UPLOADING' # NoPath

\* C17 (as claimed): while the timer armed by the last upload_end is
\* pending, only its firing dequeues.
CooldownBeforeNextAttempt ==
    [][(Dequeue /\ timers > 0) => timers' = timers - 1]_vars

\* C18: while a path is in flight, in every state a step of the scan lane
\* can be taken; and with the scan timer firing and readdir and lstat
\* completing, but nothing said about the put, info and checksum, for as
\* long as a path stays in flight (and the process runs) a readdir is
\* issued again and again and the scan's callback re-arms the timer again
\* and again.
ScanLaneIndependence ==
    /\ []((proc = "running" /\ UPLOADING # NoPath) => ENABLED ScanLaneStep)
    /\ []<>(scan.phase = "readdir" \/ UPLOADING = NoPath \/ proc # "running")
    /\ []<>(scan.phase = "timer" \/ UPLOADING = NoPath \/ proc # "running")

\* a scan has collected a new file and is about to reconcile while the
\* attempt in flight waits for its checksum
ScanLaneWitness ==
    /\ UPLOADING # NoPath
    /\ \E a \in BagToSet(attempts) : a.path = UPLOADING /\ a.phase = "md5"
    /\ scan.phase = "lstat" /\ scan.pending = {}
    /\ \E q \in Range(scan.file_list) : q # UPLOADING /\ NotIn(FILEQ, q)

\* C19: a step that arms the upload_one timer (upload_end) is taken by the
\* attempt in progress for UPLOADING and leaves no attempt in progress;
\* and the stream error or put completion of a closure whose "ended" is
\* set leaves UPLOADING, the queue, the files, the timers and the last
\* outcome as they are and puts no closure into the info phase.
OneTerminalOutcome ==
    /\ [][timers' > timers =>
            /\ \E a \in BagToSet(attempts) : InProgress(a) /\ a.path = UPLOADING
            /\ UPLOADING' = NoPath
            /\ \A b \in BagToSet(attempts') : ~InProgress(b)
         ]_vars
    /\ [][\A a \in BagToSet(attempts) :
            (/\ a.ended
             /\ \/ StreamError(a)
                \/ \E res \in PutResults, ok \in BOOLEAN, late \in BOOLEAN :
                     PutDoneLate(a, res, ok, late)) =>
                /\ UNCHANGED <<UPLOADING, FILEQ, fs, timers, outcome>>
                /\ \A b \in BagToSet(attempts') :
                     b.phase = "info" => \E c \in BagToSet(attempts) : c.phase = "info"
         ]_vars

\* the stream of the attempt in progress is still open during its
\* checksum, and a closure of an earlier attempt, ended by a read error,
\* still waits for its put
OneTerminalOutcomeWitness ==
    /\ UPLOADING # NoPath
    /\ \E b \in BagToSet(attempts) :
         b.path = UPLOADING /\ b.phase = "md5" /\ b.stream = "open"
    /\ \E a \in BagToSet(attempts) : ~InProgress(a) /\ a.phase = "put"

\* the dispatcher is idle with a non-empty queue
IdleNonEmpty == proc = "running" /\ UPLOADING = NoPath /\ FILEQ # <<>>

\* C20 (as claimed): where the dispatcher is idle with a non-empty queue
\* the upload_one timer is pending, and with every timer firing and every
\* I/O operation completing that state leads to a dequeue (or the
\* termination of the process).
NoLostWakeupAlways ==
    /\ [](IdleNonEmpty => timers > 0)
    /\ IdleNonEmpty ~> (UPLOADING # NoPath \/ proc # "running")

\* C20 (amended): where the dispatcher is idle with a non-empty queue the
\* upload_one timer is pending, and with every timer firing and every I/O
\* operation completing that state does not last: it leads to a dequeue
\* unless a scan empties the queue first (or the process is terminated).
NoLostWakeup ==
    /\ [](IdleNonEmpty => timers > 0)
    /\ []<>(~IdleNonEmpty)

\* an attempt has ended while another path waits in the queue
NoLostWakeupWitness ==
    /\ IdleNonEmpty
    /\ outcome.path # NoPath
    /\ timers > 0

====
